---- MODULE Spec2Model ----
(***************************************************************************)
(* Model of garnet/bin/perfcompare/perfcompare.py: the confidence-interval *)
(* arithmetic (Mean, MeanAndStddev, Stats), the aggregation of raw results *)
(* (ResultsFromDirs), the classifier (ComparePerf) and the validator       *)
(* (IntervalsIntersect, MismatchRate, ValidatePerfCompare).                *)
(*                                                                         *)
(* Python floats are modelled as fixed-point integers: a float x is the    *)
(* integer x * Scale.  A raised exception is a value Raise(name); a normal *)
(* return is Ok(value).                                                    *)
(***************************************************************************)
EXTENDS Integers, Sequences, FiniteSets, TLC

VARIABLES
    pc,             \* position of the running handler
    exc,            \* name of the exception that left the handler, or ""
    out_fh,         \* the lines written to out_fh so far
    results_maps,   \* ComparePerf / ValidatePerfCompare: list of ResultsMaps
    label_idx,      \* ComparePerf: labels of sorted(labels) already visited
    counts,         \* ComparePerf: counts per verdict
    all_rows,       \* ComparePerf: rows of the table of all test cases
    diff_rows,      \* ComparePerf: rows of the table of differences
    results_dirs,   \* ValidatePerfCompare: args.results_dirs (filenames)
    group_size,     \* ValidatePerfCompare: args.group_size
    fs,             \* ValidatePerfCompare: filename -> raw results of a boot
    group_count,    \* ValidatePerfCompare: boot_count / group_size
    group_args,     \* ValidatePerfCompare: the slices given to ResultsFromDirs
    by_test,        \* ValidatePerfCompare: label -> list of Stats
    mismatch_rates, \* ValidatePerfCompare: rates of the labels visited
    intervals,      \* MismatchRate: its argument
    mismatch_rate,  \* MismatchRate: its outcome
    boot_paths,     \* ResultsFromDirs: its argument filenames
    boot_idx,       \* ResultsFromDirs: boots of boot_paths already read
    boot_results,   \* ResultsFromDirs: results_for_boot of the last boot
    label_lists,    \* ResultsFromDirs: results_map, label -> per-boot means
    results,        \* ResultsFromDirs: its outcome
    sample,         \* Stats.__init__: the values it is given
    stats_obj,      \* Stats.__init__: the object built, or its error
    snapshots,      \* CompareSizes: the two parsed snapshot files
    stdout          \* CompareSizes: the lines printed

vars == <<pc, exc, out_fh, results_maps, label_idx, counts, all_rows,
          diff_rows, results_dirs, group_size, fs, group_count, group_args,
          by_test, mismatch_rates, intervals, mismatch_rate, boot_paths,
          boot_idx, boot_results, label_lists, results, sample, stats_obj,
          snapshots, stdout>>

compare_vars == <<label_idx, counts, all_rows, diff_rows>>
validate_vars == <<results_dirs, group_size, fs, group_count, group_args,
                   by_test, mismatch_rates>>
mismatch_vars == <<intervals, mismatch_rate>>
aggregate_vars == <<boot_paths, boot_idx, boot_results, label_lists,
                    results>>
stats_vars == <<sample, stats_obj>>
sizes_vars == <<snapshots, stdout>>
other_vars == <<aggregate_vars, stats_vars, sizes_vars>>

\* ResultsFromDirs, Stats.__init__ and CompareSizes are not running.
AggregateIdle ==
    /\ boot_paths = <<>>
    /\ boot_idx = 0
    /\ boot_results = <<>>
    /\ label_lists = <<>>
    /\ results = [exc |-> "", val |-> <<>>]
StatsIdle ==
    /\ sample = <<>>
    /\ stats_obj = [exc |-> "", val |-> <<>>]
SizesIdle ==
    /\ snapshots = <<>>
    /\ stdout = <<>>
OtherIdle == AggregateIdle /\ StatsIdle /\ SizesIdle

(***************************************************************************)
(* Bounds of the model.                                                    *)
(***************************************************************************)
\* One unit of a float is Scale fixed-point steps.
Scale == 100
\* ComparePerf: a Stats has mean k/2 for k in 0..MaxMean.
MaxMean == 3
\* ComparePerf: a Stats has offset k/2 for k in 0..MaxOffset.
MaxOffset == 1
\* MismatchRate: at most MaxIntervals intervals in the list.
MaxIntervals == 3
\* MismatchRate: interval bounds are in 0..MaxCoord.
MaxCoord == 3
\* ValidatePerfCompare: at most MaxBoots filenames in args.results_dirs.
MaxBoots == 5
\* ValidatePerfCompare: args.group_size is in 0..MaxGroupSize.
MaxGroupSize == 2
\* ValidatePerfCompare: a test case runs for 1..MaxVal units.
MaxVal == 2
\* ResultsFromDirs: at most MaxAggBoots filenames.
MaxAggBoots == 2
\* ResultsFromDirs: at most MaxRuns process runs in a boot.
MaxRuns == 2
\* ResultsFromDirs: at most MaxLen values in a process-run record.
MaxLen == 3
\* Stats.__init__: at most MaxSample values in the sample.
MaxSample == 3
\* Stats.__init__: a value is k/2 for k in 0..MaxSampleVal.
MaxSampleVal == 3
\* ComparePerf: each results directory holds BootsPerDir boots.
BootsPerDir == 3
\* CompareSizes: a snapshot has at most MaxBlobs blobs.
MaxBlobs == 2
\* CompareSizes: a blob has at most MaxBlobSize bytes.
MaxBlobSize == 2
\* ResultsFromDirs: at most MaxLabelBoots boots that ran different tests.
MaxLabelBoots == 3

(***************************************************************************)
(* Outcomes of calls, and float arithmetic.                                *)
(***************************************************************************)
Ok(v) == [exc |-> "", val |-> v]
Raise(e) == [exc |-> e, val |-> 0]
IsOk(r) == r.exc = ""

\* x / y on floats: ZeroDivisionError when y is 0.
FloatDiv(x, y) ==
    IF y = 0 THEN Raise("ZeroDivisionError")
    ELSE IF y > 0 THEN Ok((x * Scale) \div y)
    ELSE Ok(((-x) * Scale) \div (-y))

\* '%d' % x on a float: truncation towards zero.
FormatD(x) == IF x >= 0 THEN x \div Scale ELSE -((-x) \div Scale)

RECURSIVE SqrtIter(_, _, _)
SqrtIter(x, lo, hi) ==
    IF hi - lo <= 1 THEN lo
    ELSE LET mid == (lo + hi) \div 2
         IN IF mid * mid <= x THEN SqrtIter(x, mid, hi)
            ELSE SqrtIter(x, lo, mid)

\* math.sqrt on a fixed-point number whose unit is the square of the
\* result's unit: the largest r with r * r <= x.
Sqrt(x) == SqrtIter(x, 0, x + 1)

RECURSIVE Sum(_)
Sum(values) ==
    IF values = <<>> THEN 0 ELSE Head(values) + Sum(Tail(values))

(***************************************************************************)
(* Mean, MeanAndStddev, Stats                                              *)
(***************************************************************************)
\* AssertionError('Mean is not defined for an empty sample')
EmptySampleError == "AssertionError: Mean is not defined for an empty sample"

\* AssertionError("Sample size of %d is too small to calculate standard
\* deviation with Bessel's correction")
InsufficientSampleError == "AssertionError: Sample size is too small to calculate standard deviation with Bessel's correction"

\* Mean that takes the last value for the mean.
MeanOfLast(values) ==
    IF Len(values) = 0 THEN Raise(EmptySampleError)
    ELSE Ok(values[Len(values)])

\* Mean that takes 0 for the mean of an empty sample.
MeanDefaultZero(values) ==
    IF Len(values) = 0 THEN Ok(0) ELSE Ok(Sum(values) \div Len(values))

Mean(values) ==
    IF Len(values) = 0 THEN Raise(EmptySampleError)
    ELSE Ok(Sum(values) \div Len(values))

RECURSIVE SumOfSquares(_, _)
SumOfSquares(values, mean_val) ==
    IF values = <<>> THEN 0
    ELSE LET diff == Head(values) - mean_val
         IN diff * diff + SumOfSquares(Tail(values), mean_val)

\* MeanAndStddev that accepts a sample of one value, with deviation 0.
MeanAndStddevOfOne(values) ==
    IF Len(values) = 0 THEN Raise(InsufficientSampleError)
    ELSE IF Len(values) = 1 THEN Ok(<<values[1], 0>>)
    ELSE Ok(<<Sum(values) \div Len(values),
              Sqrt(SumOfSquares(values, Sum(values) \div Len(values))
                   \div (Len(values) - 1))>>)

\* MeanAndStddev that calls Mean before it looks at the sample size.
MeanAndStddevMeanFirst(values) ==
    IF Len(values) = 0 THEN Raise(EmptySampleError)
    ELSE IF Len(values) = 1 THEN Raise(InsufficientSampleError)
    ELSE Ok(<<Sum(values) \div Len(values),
              Sqrt(SumOfSquares(values, Sum(values) \div Len(values))
                   \div (Len(values) - 1))>>)

MeanAndStddev(values) ==
    IF Len(values) <= 1 THEN Raise(InsufficientSampleError)
    ELSE LET mean_val == Mean(values).val
             sum_of_squares == SumOfSquares(values, mean_val)
             stddev_val == Sqrt(sum_of_squares \div (Len(values) - 1))
         IN Ok(<<mean_val, stddev_val>>)

\* -scipy.stats.t.ppf(ALPHA / 2, df) for ALPHA = 0.05, in thousandths.
TPpfNegAlpha05(df) ==
    CASE df = 1 -> 12706
      [] df = 2 -> 4303
      [] df = 3 -> 3182
      [] df = 4 -> 2776
      [] df = 5 -> 2571
      [] OTHER -> 2447

\* -scipy.stats.t.ppf(ALPHA / 2, df) for ALPHA = 0.01, in thousandths.
TPpfNeg(df) ==
    CASE df = 1 -> 63657
      [] df = 2 -> 9925
      [] df = 3 -> 5841
      [] df = 4 -> 4604
      [] df = 5 -> 4032
      [] OTHER -> 3707

\* Stats.__init__ whose interval ends at the mean.
StatsOfLowerHalf(mean, offset) ==
    [mean |-> mean, offset |-> offset,
     interval |-> <<mean - offset, mean>>]

\* The fields Stats.__init__ sets from mean and offset.
StatsOf(mean, offset) ==
    [mean |-> mean, offset |-> offset,
     interval |-> <<mean - offset, mean + offset>>]

Stats(values) ==
    LET sample_size == Len(values)
        ms == MeanAndStddev(values)
    IN IF ~IsOk(ms) THEN ms
       ELSE LET mean == ms.val[1]
                stddev == ms.val[2]
                offset == (((TPpfNeg(sample_size - 1) * stddev) \div 1000)
                           * Scale) \div Sqrt(sample_size * Scale * Scale)
            IN Ok(StatsOf(mean, offset))

FormatConfidenceInterval(stats) ==
    <<FormatD(stats.mean), "+/-", FormatD(stats.offset)>>

RelativeConfidenceIntervalWidth(stats) ==
    FloatDiv(stats.offset * 2, stats.mean)

(***************************************************************************)
(* sorted() on labels: strings are ordered lexicographically.               *)
(***************************************************************************)
\* The labels of the model, in lexicographic order.
LabelUniverse == <<"new_test", "t", "x">>

LabelRank(label) == CHOOSE i \in 1..Len(LabelUniverse) : LabelUniverse[i] = label

LabelLess(a, b) == LabelRank(a) < LabelRank(b)

RECURSIVE SortedLabels(_)
SortedLabels(S) ==
    IF S = {} THEN <<>>
    ELSE LET least == CHOOSE a \in S : \A b \in S \ {a} : LabelLess(a, b)
         IN <<least>> \o SortedLabels(S \ {least})

(***************************************************************************)
(* ComparePerf                                                             *)
(***************************************************************************)
Verdicts == {"added", "removed", "faster", "slower", "no_sig_diff"}

\* The labels of the two ResultsMaps ComparePerf is given.
CompareLabels == {"new_test", "t"}

\* The Stats objects a ResultsMap of ComparePerf holds: any mean and any
\* offset >= 0 is the outcome of Stats.__init__ on some sample.
CompareStats ==
    {StatsOf(m * (Scale \div 2), o * (Scale \div 2)) :
        m \in 0..MaxMean, o \in 0..MaxOffset}

ResultsMaps(Labels, StatsSet) ==
    UNION {[S -> StatsSet] : S \in SUBSET Labels}

\* labels: the names of all test cases, including those added or removed.
labels == (DOMAIN results_maps[1]) \cup (DOMAIN results_maps[2])

\* Verdict with strict comparisons: touching intervals are no_sig_diff.
VerdictStrict(interval_before, interval_after) ==
    IF interval_after[1] > interval_before[2] THEN "slower"
    ELSE IF interval_after[2] < interval_before[1] THEN "faster"
    ELSE "no_sig_diff"

\* Verdict with the two sides exchanged.
VerdictSwapped(interval_before, interval_after) ==
    IF interval_before[1] >= interval_after[2] THEN "slower"
    ELSE IF interval_before[2] <= interval_after[1] THEN "faster"
    ELSE "no_sig_diff"

\* The if/elif/else on the two intervals of a label present in both maps.
Verdict(interval_before, interval_after) ==
    IF interval_after[1] >= interval_before[2] THEN "slower"
    ELSE IF interval_after[2] <= interval_before[1] THEN "faster"
    ELSE "no_sig_diff"

\* CompareRow with the verdicts 'added' and 'removed' exchanged.
CompareRowExchanged(label, maps) ==
    IF label \notin DOMAIN maps[1] THEN
        Ok([label |-> label, result |-> "removed", factor_range |-> <<"-">>,
            before_range |-> <<"-">>,
            after_range |-> FormatConfidenceInterval(maps[2][label])])
    ELSE IF label \notin DOMAIN maps[2] THEN
        Ok([label |-> label, result |-> "added", factor_range |-> <<"-">>,
            before_range |-> FormatConfidenceInterval(maps[1][label]),
            after_range |-> <<"-">>])
    ELSE Raise("ZeroDivisionError")

\* The body of the loop over sorted(labels) up to the row it builds.
CompareRow(label, maps) ==
    IF label \notin DOMAIN maps[1] THEN
        Ok([label |-> label, result |-> "added", factor_range |-> <<"-">>,
            before_range |-> <<"-">>,
            after_range |-> FormatConfidenceInterval(maps[2][label])])
    ELSE IF label \notin DOMAIN maps[2] THEN
        Ok([label |-> label, result |-> "removed", factor_range |-> <<"-">>,
            before_range |-> FormatConfidenceInterval(maps[1][label]),
            after_range |-> <<"-">>])
    ELSE
        LET stats == <<maps[1][label], maps[2][label]>>
            interval_before == stats[1].interval
            interval_after == stats[2].interval
            factor_min == FloatDiv(interval_after[1], interval_before[2])
            factor_max == FloatDiv(interval_after[2], interval_before[1])
        IN IF ~IsOk(factor_min) THEN factor_min
           ELSE IF ~IsOk(factor_max) THEN factor_max
           ELSE Ok([label |-> label,
                    result |-> Verdict(interval_before, interval_after),
                    factor_range |-> <<factor_min.val, "-", factor_max.val>>,
                    before_range |-> FormatConfidenceInterval(stats[1]),
                    after_range |-> FormatConfidenceInterval(stats[2])])

\* counts[result] += 1 that forgets the removed test cases.
CountsAfterSkipRemoved(cnts, result) ==
    IF result = "removed" THEN cnts ELSE [cnts EXCEPT ![result] = @ + 1]

\* counts[result] += 1
CountsAfter(cnts, result) == [cnts EXCEPT ![result] = @ + 1]

\* if result != 'no_sig_diff' that is not looked at.
DiffRowsKeepAll(rows, row) == Append(rows, row)

\* if result != 'no_sig_diff': diff_rows.append(row)
DiffRowsAfter(rows, row) ==
    IF row.result # "no_sig_diff" THEN Append(rows, row) ELSE rows

FormatCount(count, text) ==
    <<count, IF count = 1 THEN "test case" ELSE "test cases", text>>

\* The state when the loop over sorted(labels) starts: both ResultsMaps
\* are read, the counts are 0 and the tables are empty.
CompareInit ==
    /\ results_maps \in
           [1..2 -> ResultsMaps(CompareLabels, CompareStats)]
    /\ pc = "loop"
    /\ exc = ""
    /\ out_fh = <<>>
    /\ label_idx = 0
    /\ counts = [v \in Verdicts |-> 0]
    /\ all_rows = <<>>
    /\ diff_rows = <<>>
    /\ results_dirs = <<>>
    /\ group_size = 0
    /\ fs = <<>>
    /\ group_count = 0
    /\ group_args = <<>>
    /\ by_test = <<>>
    /\ mismatch_rates = <<>>
    /\ intervals = <<>>
    /\ mismatch_rate = Ok(0)
    /\ OtherIdle

\* One iteration of "for label in sorted(labels)".
CompareLoop ==
    /\ pc = "loop"
    /\ label_idx < Cardinality(labels)
    /\ LET label == SortedLabels(labels)[label_idx + 1]
           row == CompareRow(label, results_maps)
       IN IF ~IsOk(row) THEN
              /\ pc' = "error"
              /\ exc' = row.exc
              /\ UNCHANGED compare_vars
          ELSE
              /\ counts' = CountsAfter(counts, row.val.result)
              /\ all_rows' = Append(all_rows, row.val)
              /\ diff_rows' = DiffRowsAfter(diff_rows, row.val)
              /\ label_idx' = label_idx + 1
              /\ UNCHANGED <<pc, exc>>
    /\ UNCHANGED <<out_fh, results_maps>>
    /\ UNCHANGED validate_vars
    /\ UNCHANGED mismatch_vars
    /\ UNCHANGED other_vars

\* The code after the loop: the summary counts and the two tables.
CompareReport ==
    /\ pc = "loop"
    /\ label_idx = Cardinality(labels)
    /\ out_fh' = out_fh \o
           <<<<"Summary counts:">>,
             FormatCount(Cardinality(labels), "in total"),
             FormatCount(counts["no_sig_diff"],
                         "had no significant difference (no_sig_diff)"),
             FormatCount(counts["faster"], "got faster"),
             FormatCount(counts["slower"], "got slower"),
             FormatCount(counts["added"], "added"),
             FormatCount(counts["removed"], "removed")>>
           \o (IF Len(diff_rows) # 0
               THEN <<<<"Results from test cases with differences:",
                        diff_rows>>>>
               ELSE <<>>)
           \o <<<<"Results from all test cases:", all_rows>>>>
    /\ pc' = "done"
    /\ UNCHANGED <<exc, results_maps>>
    /\ UNCHANGED compare_vars
    /\ UNCHANGED validate_vars
    /\ UNCHANGED mismatch_vars
    /\ UNCHANGED other_vars

CompareNext == CompareLoop \/ CompareReport

SpecCompare == CompareInit /\ [][CompareNext]_vars

(***************************************************************************)
(* IntervalsIntersect, MismatchRate                                        *)
(***************************************************************************)
\* IntervalsIntersect with "and" in place of "or".
IntervalsIntersectAnd(interval1, interval2) ==
    ~(interval2[1] >= interval1[2] /\ interval2[2] <= interval1[1])

\* IntervalsIntersect with strict comparisons: touching intervals intersect.
IntervalsIntersectStrict(interval1, interval2) ==
    ~(interval2[1] > interval1[2] \/ interval2[2] < interval1[1])

IntervalsIntersect(interval1, interval2) ==
    ~(interval2[1] >= interval1[2] \/ interval2[2] <= interval1[1])

\* The sum of the generator "for i in xrange(len) for j in xrange(i)",
\* from the pair (i, j) on; i and j count from 0 as in the code.
RECURSIVE MismatchCountFrom(_, _, _)
MismatchCountFrom(ivs, i, j) ==
    IF i >= Len(ivs) THEN 0
    ELSE IF j >= i THEN MismatchCountFrom(ivs, i + 1, 0)
    ELSE (IF ~IntervalsIntersect(ivs[i + 1], ivs[j + 1]) THEN 1 ELSE 0)
             + MismatchCountFrom(ivs, i, j + 1)

\* float(n) of an int n.
ToFloat(n) == n * Scale

\* MismatchRate that divides by the number of ordered pairs.
MismatchRateOrdered(ivs) ==
    LET mismatch_count == MismatchCountFrom(ivs, 0, 0)
        comparisons_count == Len(ivs) * (Len(ivs) - 1)
    IN FloatDiv(ToFloat(mismatch_count), ToFloat(comparisons_count))

\* MismatchRate that answers 0 when there is no pair to compare.
MismatchRateDefaultZero(ivs) ==
    LET mismatch_count == MismatchCountFrom(ivs, 0, 0)
        comparisons_count == (Len(ivs) * (Len(ivs) - 1)) \div 2
    IN IF comparisons_count = 0 THEN Ok(0)
       ELSE FloatDiv(ToFloat(mismatch_count), ToFloat(comparisons_count))

MismatchRate(ivs) ==
    LET mismatch_count == MismatchCountFrom(ivs, 0, 0)
        comparisons_count == (Len(ivs) * (Len(ivs) - 1)) \div 2
    IN FloatDiv(ToFloat(mismatch_count), ToFloat(comparisons_count))

\* The intervals MismatchRate is applied to: low <= high.
IntervalSet ==
    {iv \in (0..MaxCoord) \X (0..MaxCoord) : iv[1] <= iv[2]}

\* MismatchRate is about to be called on a list of intervals.
MismatchInit ==
    /\ intervals \in UNION {[1..k -> IntervalSet] : k \in 0..MaxIntervals}
    /\ mismatch_rate = Ok(0)
    /\ OtherIdle
    /\ pc = "call"
    /\ exc = ""
    /\ out_fh = <<>>
    /\ results_maps = <<>>
    /\ label_idx = 0
    /\ counts = [v \in Verdicts |-> 0]
    /\ all_rows = <<>>
    /\ diff_rows = <<>>
    /\ results_dirs = <<>>
    /\ group_size = 0
    /\ fs = <<>>
    /\ group_count = 0
    /\ group_args = <<>>
    /\ by_test = <<>>
    /\ mismatch_rates = <<>>

\* The call returns a rate or raises.
MismatchRateCall ==
    /\ pc = "call"
    /\ mismatch_rate' = MismatchRate(intervals)
    /\ pc' = IF IsOk(mismatch_rate') THEN "done" ELSE "error"
    /\ exc' = mismatch_rate'.exc
    /\ UNCHANGED <<out_fh, results_maps, intervals>>
    /\ UNCHANGED compare_vars
    /\ UNCHANGED validate_vars
    /\ UNCHANGED other_vars

MismatchNext == MismatchRateCall

SpecMismatch == MismatchInit /\ [][MismatchNext]_vars

(***************************************************************************)
(* ResultsFromDirs                                                         *)
(***************************************************************************)
\* d.setdefault(key, []).append(value) that puts the value in front.
DictPrepend(d, key, value) ==
    [k \in (DOMAIN d) \cup {key} |->
        IF k = key
        THEN (IF key \in DOMAIN d THEN <<value>> \o d[key] ELSE <<value>>)
        ELSE d[k]]

\* d.setdefault(key, []).append(value)
DictAppend(d, key, value) ==
    [k \in (DOMAIN d) \cup {key} |->
        IF k = key
        THEN (IF key \in DOMAIN d THEN Append(d[key], value) ELSE <<value>>)
        ELSE d[k]]

\* values[1:] that keeps the warm-up run.
DropNone(values) == values

\* values[1:]
DropFirst(values) == IF Len(values) = 0 THEN <<>> ELSE Tail(values)

\* The loop over the test cases of one process run.
RECURSIVE ResultsForRun(_, _)
ResultsForRun(process_run_results, results_for_boot) ==
    IF process_run_results = <<>> THEN Ok(results_for_boot)
    ELSE LET test_case == Head(process_run_results)
             new_value == Mean(DropFirst(test_case.values))
         IN IF ~IsOk(new_value) THEN new_value
            ELSE ResultsForRun(Tail(process_run_results),
                               DictAppend(results_for_boot, test_case.label,
                                          new_value.val))

\* The loop over the process runs of one boot.
RECURSIVE ResultsForBoot(_, _)
ResultsForBoot(runs, results_for_boot) ==
    IF runs = <<>> THEN Ok(results_for_boot)
    ELSE LET r == ResultsForRun(Head(runs), results_for_boot)
         IN IF ~IsOk(r) THEN r ELSE ResultsForBoot(Tail(runs), r.val)

\* The loop over the boots: label -> list of the per-boot means.
RECURSIVE ResultsLists(_, _, _)
ResultsLists(filenames, files, results_map) ==
    IF filenames = <<>> THEN Ok(results_map)
    ELSE LET r == ResultsForBoot(files[Head(filenames)], <<>>)
         IN IF ~IsOk(r) THEN r
            ELSE ResultsLists(
                     Tail(filenames), files,
                     [label \in (DOMAIN results_map) \cup (DOMAIN r.val) |->
                         IF label \notin DOMAIN r.val THEN results_map[label]
                         ELSE DictAppend(results_map, label,
                                         Mean(r.val[label]).val)[label]])

ResultsFromDirs(filenames, files) ==
    LET lists == ResultsLists(filenames, files, <<>>)
    IN IF ~IsOk(lists) THEN lists
       ELSE IF \E name \in DOMAIN lists.val : ~IsOk(Stats(lists.val[name]))
       THEN Stats(lists.val[CHOOSE name \in DOMAIN lists.val :
                                ~IsOk(Stats(lists.val[name]))])
       ELSE Ok([name \in DOMAIN lists.val |-> Stats(lists.val[name]).val])

(***************************************************************************)
(* ValidatePerfCompare                                                     *)
(***************************************************************************)
\* The labels of the test cases the boots of the validator ran.
ValidateLabels == {"t", "x"}

\* The raw results of a boot: one process run in which test case "t" ran
\* for t_val units (not at all if 0) and test case "x", if it ran, for one
\* unit; the first run of a test case is a warm-up run that takes longer.
BootResults(t_val, x_ran) ==
    LET t_case == IF t_val = 0 THEN <<>>
                  ELSE <<[label |-> "t",
                          values |-> <<ToFloat(t_val + 1), ToFloat(t_val),
                                       ToFloat(t_val)>>]>>
        x_case == IF x_ran
                  THEN <<[label |-> "x",
                          values |-> <<ToFloat(3), ToFloat(1)>>]>>
                  ELSE <<>>
    IN IF t_case \o x_case = <<>> THEN <<>> ELSE <<t_case \o x_case>>

\* seq[lo:hi] for 0 <= lo <= hi.
Slice(seq, lo, hi) ==
    LET m == IF lo < Len(seq) THEN lo ELSE Len(seq)
        n == IF hi < Len(seq) THEN hi ELSE Len(seq)
    IN [k \in 1..(n - m) |-> seq[m + k]]

\* ValidatePerfCompare is called with 1..MaxBoots filenames (nargs='+')
\* and a group size; "x" ran in the first x_boots boots.
ValidateInit ==
    /\ \E n \in 1..MaxBoots :
           /\ results_dirs = [i \in 1..n |-> i]
           /\ \E t_vals \in [1..n -> 0..MaxVal], x_boots \in 0..n :
                  fs = [i \in 1..n |-> BootResults(t_vals[i], i <= x_boots)]
    /\ group_size \in 0..MaxGroupSize
    /\ pc = "start"
    /\ exc = ""
    /\ out_fh = <<>>
    /\ results_maps = <<>>
    /\ group_count = 0
    /\ group_args = <<>>
    /\ by_test = <<>>
    /\ mismatch_rates = <<>>
    /\ label_idx = 0
    /\ counts = [v \in Verdicts |-> 0]
    /\ all_rows = <<>>
    /\ diff_rows = <<>>
    /\ intervals = <<>>
    /\ mismatch_rate = Ok(0)
    /\ OtherIdle

\* group_count = boot_count / group_size, on ints.
GroupCount(boot_count, size) ==
    IF size = 0 THEN Raise("ZeroDivisionError")
    ELSE Ok(boot_count \div size)

ValidateStart ==
    /\ pc = "start"
    /\ LET r == GroupCount(Len(results_dirs), group_size)
       IN IF IsOk(r)
          THEN /\ group_count' = r.val
               /\ pc' = "groups"
               /\ exc' = exc
          ELSE /\ group_count' = group_count
               /\ pc' = "error"
               /\ exc' = r.exc
    /\ UNCHANGED <<out_fh, results_maps, results_dirs, group_size, fs,
                   group_args, by_test, mismatch_rates>>
    /\ UNCHANGED compare_vars
    /\ UNCHANGED mismatch_vars
    /\ UNCHANGED other_vars

\* The slice of a window that moves by one boot, not by one group.
GroupSliceSliding(dirs, i, size) == Slice(dirs, i, i + size)

\* args.results_dirs[i * group_size : (i + 1) * group_size]
GroupSlice(dirs, i, size) == Slice(dirs, i * size, (i + 1) * size)

\* One element of the list comprehension over xrange(group_count).
ValidateGroup ==
    /\ pc = "groups"
    /\ Len(group_args) < group_count
    /\ LET i == Len(group_args)
           arg == GroupSlice(results_dirs, i, group_size)
           r == ResultsFromDirs(arg, fs)
       IN /\ group_args' = Append(group_args, arg)
          /\ IF IsOk(r)
             THEN /\ results_maps' = Append(results_maps, r.val)
                  /\ UNCHANGED <<pc, exc>>
             ELSE /\ results_maps' = results_maps
                  /\ pc' = "error"
                  /\ exc' = r.exc
    /\ UNCHANGED <<out_fh, results_dirs, group_size, fs, group_count,
                   by_test, mismatch_rates>>
    /\ UNCHANGED compare_vars
    /\ UNCHANGED mismatch_vars
    /\ UNCHANGED other_vars

\* Group by test name (label).
RECURSIVE ByTest(_, _)
ByTest(maps, acc) ==
    IF maps = <<>> THEN acc
    ELSE ByTest(Tail(maps),
                [label \in (DOMAIN acc) \cup (DOMAIN Head(maps)) |->
                    IF label \notin DOMAIN Head(maps) THEN acc[label]
                    ELSE DictAppend(acc, label, Head(maps)[label])[label]])

ValidateByTest ==
    /\ pc = "groups"
    /\ Len(group_args) = group_count
    /\ by_test' = ByTest(results_maps, <<>>)
    /\ out_fh' = Append(out_fh, <<"Rate of mismatches (non-intersections) of confidence intervals for each test:">>)
    /\ pc' = "rates"
    /\ UNCHANGED <<exc, results_maps, results_dirs, group_size, fs,
                   group_count, group_args, mismatch_rates>>
    /\ UNCHANGED compare_vars
    /\ UNCHANGED mismatch_vars
    /\ UNCHANGED other_vars

\* [stats.interval for stats in stats_list]
IntervalsOf(stats_list) ==
    [k \in 1..Len(stats_list) |-> stats_list[k].interval]

\* One iteration of the loop over sorted(by_test.iteritems()).
ValidateRate ==
    /\ pc = "rates"
    /\ Len(mismatch_rates) < Cardinality(DOMAIN by_test)
    /\ LET label == SortedLabels(DOMAIN by_test)[Len(mismatch_rates) + 1]
           rate == MismatchRate(IntervalsOf(by_test[label]))
       IN IF IsOk(rate)
          THEN /\ out_fh' = Append(out_fh, <<"%f %s", rate.val, label>>)
               /\ mismatch_rates' = Append(mismatch_rates, rate.val)
               /\ UNCHANGED <<pc, exc>>
          ELSE /\ pc' = "error"
               /\ exc' = rate.exc
               /\ UNCHANGED <<out_fh, mismatch_rates>>
    /\ UNCHANGED <<results_maps, results_dirs, group_size, fs, group_count,
                   group_args, by_test>>
    /\ UNCHANGED compare_vars
    /\ UNCHANGED mismatch_vars
    /\ UNCHANGED other_vars

\* The relative CI widths of all Stats of one ResultsMap.
RECURSIVE WidthsOfMap(_, _)
WidthsOfMap(results_map, names) ==
    IF names = <<>> THEN Ok(<<>>)
    ELSE LET w == RelativeConfidenceIntervalWidth(results_map[Head(names)])
             rest == WidthsOfMap(results_map, Tail(names))
         IN IF ~IsOk(w) THEN w
            ELSE IF ~IsOk(rest) THEN rest
            ELSE Ok(<<w.val>> \o rest.val)

\* The list comprehension over all Stats of all ResultsMaps.
RECURSIVE Widths(_)
Widths(maps) ==
    IF maps = <<>> THEN Ok(<<>>)
    ELSE LET w == WidthsOfMap(Head(maps), SortedLabels(DOMAIN Head(maps)))
             rest == Widths(Tail(maps))
         IN IF ~IsOk(w) THEN w
            ELSE IF ~IsOk(rest) THEN rest
            ELSE Ok(w.val \o rest.val)

\* mean_relative_ci_width = Mean([...])
MeanRelativeCiWidth(maps) ==
    IF ~IsOk(Widths(maps)) THEN Widths(maps) ELSE Mean(Widths(maps).val)

\* The code after the loop over the labels: the summary lines.
ValidateSummary ==
    /\ pc = "rates"
    /\ Len(mismatch_rates) = Cardinality(DOMAIN by_test)
    /\ LET mean_relative_ci_width == MeanRelativeCiWidth(results_maps)
           mean_val == Mean(mismatch_rates)
           boot_count == Len(results_dirs)
       IN IF ~IsOk(mean_relative_ci_width)
          THEN /\ pc' = "error"
               /\ exc' = mean_relative_ci_width.exc
               /\ out_fh' = out_fh
          ELSE IF ~IsOk(mean_val)
          THEN /\ pc' = "error"
               /\ exc' = mean_val.exc
               /\ out_fh' = Append(out_fh, <<"">>)
          ELSE /\ pc' = "done"
               /\ exc' = exc
               /\ out_fh' = out_fh \o
                      << <<"">>,
                         <<"Mean mismatch rate:", mean_val.val>>,
                         <<"Mean relative confidence interval width:",
                           mean_relative_ci_width.val>>,
                         <<"Number of test cases:", Len(mismatch_rates)>>,
                         <<"Number of result sets:", group_count,
                           "groups of", group_size, "boots each (ignoring",
                           boot_count - group_size * group_count,
                           "leftover boots)">>,
                         <<"Expected number of test cases with mismatches:",
                           (mean_val.val * ToFloat(Len(mismatch_rates)))
                               \div Scale>> >>
    /\ UNCHANGED <<results_maps>>
    /\ UNCHANGED validate_vars
    /\ UNCHANGED compare_vars
    /\ UNCHANGED mismatch_vars
    /\ UNCHANGED other_vars

ValidateNext ==
    \/ ValidateStart
    \/ ValidateGroup
    \/ ValidateByTest
    \/ ValidateRate
    \/ ValidateSummary

SpecValidate == ValidateInit /\ [][ValidateNext]_vars

(***************************************************************************)
(* ResultsFromDirs, one boot at a time                                     *)
(***************************************************************************)
\* ComparePerf, ValidatePerfCompare and MismatchRate are not running.
CompareIdle ==
    /\ results_maps = <<>>
    /\ label_idx = 0
    /\ counts = [v \in Verdicts |-> 0]
    /\ all_rows = <<>>
    /\ diff_rows = <<>>
ValidateIdle ==
    /\ results_dirs = <<>>
    /\ group_size = 0
    /\ group_count = 0
    /\ group_args = <<>>
    /\ by_test = <<>>
    /\ mismatch_rates = <<>>
MismatchIdle ==
    /\ intervals = <<>>
    /\ mismatch_rate = Ok(0)

\* The running time of the initial run of a test case within a process.
WarmUps == {1, 10}

\* The running times of test case "x" in a process: the warm-up run, then
\* runs that take 4 and 6 units in turn.
XValues(warm_up, len) ==
    [i \in 1..len |-> IF i = 1 THEN ToFloat(warm_up)
                      ELSE IF i % 2 = 0 THEN ToFloat(4) ELSE ToFloat(6)]

\* The raw results of a boot with run_count process runs.  Test case "x",
\* if it ran, has x_len values in the first process run and one value fewer
\* in each later one; test case "t", if it ran, is in the first process run
\* only, before "x".
RawResults(warm_up, x_ran, x_len, run_count, t_ran) ==
    [j \in 1..run_count |->
        (IF t_ran /\ j = 1
         THEN <<[label |-> "t",
                 values |-> <<ToFloat(warm_up), ToFloat(2), ToFloat(2)>>]>>
         ELSE <<>>)
        \o
        (IF x_ran
         THEN <<[label |-> "x",
                 values |-> XValues(warm_up,
                                    IF x_len >= j THEN x_len - (j - 1)
                                    ELSE 0)]>>
         ELSE <<>>)]

\* ResultsFromDirs is called with 0..MaxAggBoots filenames.
AggregateInit ==
    /\ \E n \in 0..MaxAggBoots, warm_up \in WarmUps :
           /\ boot_paths = [i \in 1..n |-> i]
           /\ \E x_ran \in [1..n -> BOOLEAN], x_len \in [1..n -> 0..MaxLen],
                 run_count \in [1..n -> 1..MaxRuns],
                 t_ran \in [1..n -> BOOLEAN] :
                  fs = [i \in 1..n |->
                           RawResults(warm_up, x_ran[i],
                                      IF x_ran[i] THEN x_len[i] ELSE 0,
                                      run_count[i], t_ran[i])]
    /\ pc = "boots"
    /\ exc = ""
    /\ out_fh = <<>>
    /\ boot_idx = 0
    /\ boot_results = <<>>
    /\ label_lists = <<>>
    /\ results = [exc |-> "", val |-> <<>>]
    /\ CompareIdle
    /\ ValidateIdle
    /\ MismatchIdle
    /\ StatsIdle
    /\ SizesIdle

\* One iteration of the loop over the boots.  An exception leaves the
\* function: nothing of the boot is kept.
AggregateBoot ==
    /\ pc = "boots"
    /\ boot_idx < Len(boot_paths)
    /\ LET boot_results_path == boot_paths[boot_idx + 1]
           r == ResultsForBoot(fs[boot_results_path], <<>>)
       IN IF IsOk(r)
          THEN /\ boot_idx' = boot_idx + 1
               /\ boot_results' = r.val
               /\ label_lists' =
                      ResultsLists(<<boot_results_path>>, fs, label_lists).val
               /\ UNCHANGED <<pc, exc, results>>
          ELSE /\ pc' = "error"
               /\ exc' = r.exc
               /\ results' = r
               /\ UNCHANGED <<boot_idx, boot_results, label_lists>>
    /\ UNCHANGED <<out_fh, results_maps, fs, boot_paths>>
    /\ UNCHANGED <<label_idx, counts, all_rows, diff_rows>>
    /\ UNCHANGED <<results_dirs, group_size, group_count, group_args,
                   by_test, mismatch_rates>>
    /\ UNCHANGED <<mismatch_vars, stats_vars, sizes_vars>>

\* The dict comprehension that builds a Stats for every label.
AggregateReturn ==
    /\ pc = "boots"
    /\ boot_idx = Len(boot_paths)
    /\ results' = ResultsFromDirs(boot_paths, fs)
    /\ pc' = IF IsOk(results') THEN "done" ELSE "error"
    /\ exc' = results'.exc
    /\ UNCHANGED <<boot_paths, boot_idx, boot_results, label_lists>>
    /\ UNCHANGED <<out_fh, results_maps, fs>>
    /\ UNCHANGED <<label_idx, counts, all_rows, diff_rows>>
    /\ UNCHANGED <<results_dirs, group_size, group_count, group_args,
                   by_test, mismatch_rates>>
    /\ UNCHANGED <<mismatch_vars, stats_vars, sizes_vars>>

AggregateNext ==
    \/ AggregateBoot
    \/ AggregateReturn

SpecAggregate == AggregateInit /\ [][AggregateNext]_vars

(***************************************************************************)
(* ResultsFromDirs on boots that ran different test cases                  *)
(***************************************************************************)
\* The raw results of boot number i in which the test cases of the set ran
\* once in one process: "t" for i units and "x" for i + 1 units after the
\* warm-up run.
BootWithLabels(i, ran) ==
    <<(IF "t" \in ran
       THEN <<[label |-> "t", values |-> <<ToFloat(i + 1), ToFloat(i)>>]>>
       ELSE <<>>)
      \o
      (IF "x" \in ran
       THEN <<[label |-> "x",
               values |-> <<ToFloat(i + 2), ToFloat(i + 1)>>]>>
       ELSE <<>>)>>

\* ResultsFromDirs is called with 0..MaxLabelBoots filenames.
LabelsInit ==
    /\ \E n \in 0..MaxLabelBoots :
           /\ boot_paths = [i \in 1..n |-> i]
           /\ \E ran \in [1..n -> SUBSET {"t", "x"}] :
                  fs = [i \in 1..n |-> BootWithLabels(i, ran[i])]
    /\ pc = "boots"
    /\ exc = ""
    /\ out_fh = <<>>
    /\ boot_idx = 0
    /\ boot_results = <<>>
    /\ label_lists = <<>>
    /\ results = [exc |-> "", val |-> <<>>]
    /\ CompareIdle
    /\ ValidateIdle
    /\ MismatchIdle
    /\ StatsIdle
    /\ SizesIdle

SpecLabels == LabelsInit /\ [][AggregateNext]_vars

(***************************************************************************)
(* Stats.__init__                                                          *)
(***************************************************************************)
\* Stats is built from at most MaxSample values, each a multiple of half a
\* unit up to MaxSampleVal halves.
StatsInit ==
    /\ \E n \in 0..MaxSample :
           \E halves \in [1..n -> 0..MaxSampleVal] :
               sample = [i \in 1..n |-> halves[i] * (Scale \div 2)]
    /\ stats_obj = [exc |-> "", val |-> <<>>]
    /\ pc = "call"
    /\ exc = ""
    /\ out_fh = <<>>
    /\ fs = <<>>
    /\ CompareIdle
    /\ ValidateIdle
    /\ MismatchIdle
    /\ AggregateIdle
    /\ SizesIdle

StatsCall ==
    /\ pc = "call"
    /\ stats_obj' = Stats(sample)
    /\ pc' = IF IsOk(stats_obj') THEN "done" ELSE "error"
    /\ exc' = stats_obj'.exc
    /\ UNCHANGED <<sample, out_fh, results_maps, fs>>
    /\ UNCHANGED <<label_idx, counts, all_rows, diff_rows>>
    /\ UNCHANGED <<results_dirs, group_size, group_count, group_args,
                   by_test, mismatch_rates>>
    /\ UNCHANGED <<mismatch_vars, aggregate_vars, sizes_vars>>

StatsNext == StatsCall

SpecStats == StatsInit /\ [][StatsNext]_vars

(***************************************************************************)
(* ComparePerf from the results directories on                             *)
(***************************************************************************)
\* The per-boot running times of test case "t" in the two directories.
BeforeValues == {98, 100, 102}
AfterValues == {108, 110, 112}

\* sorted(os.listdir(by_boot_dir)): each directory holds BootsPerDir boots.
ByBootBefore == [i \in 1..BootsPerDir |-> i]
ByBootAfter == [i \in 1..BootsPerDir |-> BootsPerDir + i]

\* The raw results of a boot in which "t" ran in one process, twice.
BootOfT(val) ==
    <<<<[label |-> "t", values |-> <<ToFloat(val + 1), ToFloat(val)>>]>>>>

EndToEndInit ==
    /\ \E before \in [1..BootsPerDir -> BeforeValues],
          after \in [1..BootsPerDir -> AfterValues] :
           fs = [i \in 1..(2 * BootsPerDir) |->
                    IF i <= BootsPerDir THEN BootOfT(before[i])
                    ELSE BootOfT(after[i - BootsPerDir])]
    /\ pc = "read"
    /\ exc = ""
    /\ out_fh = <<>>
    /\ CompareIdle
    /\ ValidateIdle
    /\ MismatchIdle
    /\ OtherIdle

\* results_maps = [ResultsFromDir(before), ResultsFromDir(after)]
CompareRead ==
    /\ pc = "read"
    /\ LET before == ResultsFromDirs(ByBootBefore, fs)
           after == ResultsFromDirs(ByBootAfter, fs)
       IN IF ~IsOk(before)
          THEN pc' = "error" /\ exc' = before.exc /\ UNCHANGED results_maps
          ELSE IF ~IsOk(after)
          THEN pc' = "error" /\ exc' = after.exc /\ UNCHANGED results_maps
          ELSE /\ results_maps' = <<before.val, after.val>>
               /\ pc' = "loop"
               /\ exc' = exc
    /\ UNCHANGED <<out_fh, fs>>
    /\ UNCHANGED <<label_idx, counts, all_rows, diff_rows>>
    /\ UNCHANGED <<results_dirs, group_size, group_count, group_args,
                   by_test, mismatch_rates>>
    /\ UNCHANGED mismatch_vars
    /\ UNCHANGED other_vars

EndToEndNext ==
    \/ CompareRead
    \/ CompareLoop
    \/ CompareReport

SpecEndToEnd == EndToEndInit /\ [][EndToEndNext]_vars

(***************************************************************************)
(* TotalSize, CompareSizes                                                 *)
(***************************************************************************)
\* sum(info['size'] for info in blobs.itervalues()) over the given keys.
RECURSIVE SumOfSizes(_, _)
SumOfSizes(blobs, keys) ==
    IF keys = {} THEN 0
    ELSE LET key == CHOOSE k \in keys : TRUE
         IN blobs[key].size + SumOfSizes(blobs, keys \ {key})

\* TotalSize on the parsed contents of a snapshot file.
TotalSize(data) == SumOfSizes(data.blobs, DOMAIN data.blobs)

\* The print statements of CompareSizes with the difference reversed.
SizeLinesReversed(sizes) ==
    <<<<"Size before:  %d bytes", sizes[1]>>,
      <<"Size after:   %d bytes", sizes[2]>>,
      <<"Difference:   %d bytes", sizes[1] - sizes[2]>>>>
    \o (IF sizes[1] # 0
        THEN <<<<"Factor of:    %f",
                 FloatDiv(ToFloat(sizes[2]), ToFloat(sizes[1])).val>>>>
        ELSE <<>>)

\* The print statements of CompareSizes.
SizeLines(sizes) ==
    <<<<"Size before:  %d bytes", sizes[1]>>,
      <<"Size after:   %d bytes", sizes[2]>>,
      <<"Difference:   %d bytes", sizes[2] - sizes[1]>>>>
    \o (IF sizes[1] # 0
        THEN <<<<"Factor of:    %f",
                 FloatDiv(ToFloat(sizes[2]), ToFloat(sizes[1])).val>>>>
        ELSE <<>>)

\* A snapshot file: a 'blobs' mapping of at most MaxBlobs blobs, each with
\* a 'size' of at most MaxBlobSize bytes.
Snapshots ==
    {[blobs |-> b] :
        b \in UNION {[S -> [size : 0..MaxBlobSize]] :
                        S \in SUBSET (1..MaxBlobs)}}

SizesInit ==
    /\ snapshots \in [1..2 -> Snapshots]
    /\ stdout = <<>>
    /\ pc = "call"
    /\ exc = ""
    /\ out_fh = <<>>
    /\ fs = <<>>
    /\ CompareIdle
    /\ ValidateIdle
    /\ MismatchIdle
    /\ AggregateIdle
    /\ StatsIdle

CompareSizes ==
    /\ pc = "call"
    /\ LET sizes == [i \in 1..2 |-> TotalSize(snapshots[i])]
       IN stdout' = stdout \o SizeLines(sizes)
    /\ pc' = "done"
    /\ UNCHANGED <<exc, snapshots, out_fh, results_maps, fs>>
    /\ UNCHANGED <<label_idx, counts, all_rows, diff_rows>>
    /\ UNCHANGED <<results_dirs, group_size, group_count, group_args,
                   by_test, mismatch_rates>>
    /\ UNCHANGED <<mismatch_vars, aggregate_vars, stats_vars>>

SizesNext == CompareSizes

SpecSizes == SizesInit /\ [][SizesNext]_vars

(***************************************************************************)
(* Properties of ComparePerf                                               *)
(***************************************************************************)
InBefore(label) == label \in DOMAIN results_maps[1]
InAfter(label) == label \in DOMAIN results_maps[2]

\* The rows of labels that are in both maps, with their two intervals.
RowsInBoth ==
    {[row |-> all_rows[k],
      b |-> results_maps[1][all_rows[k].label].interval,
      a |-> results_maps[2][all_rows[k].label].interval] :
        k \in {i \in 1..Len(all_rows) :
                  InBefore(all_rows[i].label) /\ InAfter(all_rows[i].label)}}

\* Every label visited so far has its row, in the order of the visit.
RowsFollowLabels ==
    /\ Len(all_rows) = label_idx
    /\ \A k \in 1..Len(all_rows) :
           all_rows[k].label = SortedLabels(labels)[k]

\* C1: a label in both maps is 'slower' exactly when a0 >= b1, 'faster'
\* exactly when a0 < b1 and a1 <= b0, and 'no_sig_diff' otherwise; the
\* comparisons are not strict, so touching intervals are slower or faster.
C1_VerdictBoundaries ==
    /\ RowsFollowLabels
    /\ \A r \in RowsInBoth :
           /\ (r.row.result = "slower") <=> (r.a[1] >= r.b[2])
           /\ (r.row.result = "faster") <=>
                  (r.a[1] < r.b[2] /\ r.a[2] <= r.b[1])
           /\ (r.row.result = "no_sig_diff") <=>
                  (r.a[1] < r.b[2] /\ r.a[2] > r.b[1])
           /\ (r.a[1] = r.b[2] \/ r.a[2] = r.b[1]) =>
                  r.row.result # "no_sig_diff"

\* Both labels are compared, one pair of intervals touches above and is
\* slower, the other touches below and is faster.
C1_Witness ==
    /\ pc = "done"
    /\ \E r \in RowsInBoth :
           r.a[1] = r.b[2] /\ r.a[2] > r.a[1] /\ r.row.result = "slower"
    /\ \E r \in RowsInBoth :
           r.a[2] = r.b[1] /\ r.a[2] > r.a[1] /\ r.row.result = "faster"

SumCounts ==
    counts["added"] + counts["removed"] + counts["faster"]
        + counts["slower"] + counts["no_sig_diff"]

\* C2: after each iteration the counts sum to the number of labels visited
\* and to the number of rows; after the loop they sum to the number of
\* labels of the union, which is the number of rows of the table of all
\* test cases; every row has one of the five verdicts.
C2_CountsPartitionLabels ==
    /\ SumCounts = label_idx
    /\ SumCounts = Len(all_rows)
    /\ \A k \in 1..Len(all_rows) : all_rows[k].result \in Verdicts
    /\ \A v \in Verdicts :
           counts[v] = Cardinality({k \in 1..Len(all_rows) :
                                       all_rows[k].result = v})
    /\ pc = "done" =>
           /\ SumCounts = Cardinality(labels)
           /\ Len(out_fh[Len(out_fh)][2]) = Cardinality(labels)
           /\ {all_rows[k].label : k \in 1..Len(all_rows)} = labels

\* The loop ended with one label of every kind but one.
C2_Witness ==
    /\ pc = "done"
    /\ Cardinality(labels) = 2
    /\ counts["removed"] = 1
    /\ counts["slower"] = 1

\* C3 as stated: slower only strictly above, faster only strictly below,
\* no_sig_diff whenever the intervals share a point.
C3_StrictlyDisjoint ==
    \A r \in RowsInBoth :
        /\ r.row.result = "slower" => r.a[1] > r.b[2]
        /\ r.row.result = "faster" => r.a[2] < r.b[1]
        /\ (r.a[1] <= r.b[2] /\ r.b[1] <= r.a[2]) =>
               r.row.result = "no_sig_diff"

\* C3 amended: slower only when the after interval lies at or above the
\* before interval (a0 >= b1), faster only when it lies at or below it
\* (a1 <= b0), and no_sig_diff whenever the intervals overlap in more than
\* an end point (a0 < b1 and a1 > b0).
C3_DisjointOrTouching ==
    \A r \in RowsInBoth :
        /\ r.row.result = "slower" => r.a[1] >= r.b[2]
        /\ r.row.result = "faster" => r.a[2] <= r.b[1]
        /\ (r.a[1] < r.b[2] /\ r.a[2] > r.b[1]) =>
               r.row.result = "no_sig_diff"

\* Two intervals of positive width share exactly one end point and the
\* verdict is slower.
C3_Witness ==
    \E r \in RowsInBoth :
        /\ r.row.result = "slower"
        /\ r.a[1] = r.b[2]
        /\ r.b[1] < r.b[2]
        /\ r.a[1] < r.a[2]

MirrorVerdict(v) ==
    CASE v = "faster" -> "slower"
      [] v = "slower" -> "faster"
      [] OTHER -> v

\* C4: the verdict of a label in both maps is the mirror image of the
\* verdict the same two intervals get with before and after exchanged.
C4_SwapMirrorsVerdict ==
    \A r \in RowsInBoth : Verdict(r.a, r.b) = MirrorVerdict(r.row.result)

\* C5: a label only in the after map is 'added', a label only in the
\* before map is 'removed'; both have factor range '-', '-' for the
\* missing side and the mean and offset of the present side, and are the
\* only rows with these verdicts.
C5_AddedRemoved ==
    /\ RowsFollowLabels
    /\ \A k \in 1..Len(all_rows) :
           LET row == all_rows[k]
           IN /\ (row.result = "added") <=> ~InBefore(row.label)
              /\ (row.result = "removed") <=> ~InAfter(row.label)
              /\ row.result = "added" =>
                     LET st == results_maps[2][row.label]
                     IN /\ row.factor_range = <<"-">>
                        /\ row.before_range = <<"-">>
                        /\ Len(row.after_range) = 3
                        /\ row.after_range[1] * Scale <= st.mean
                        /\ st.mean < (row.after_range[1] + 1) * Scale
                        /\ row.after_range[3] * Scale <= st.offset
                        /\ st.offset < (row.after_range[3] + 1) * Scale
              /\ row.result = "removed" =>
                     LET st == results_maps[1][row.label]
                     IN /\ row.factor_range = <<"-">>
                        /\ row.after_range = <<"-">>
                        /\ Len(row.before_range) = 3
                        /\ row.before_range[1] * Scale <= st.mean
                        /\ st.mean < (row.before_range[1] + 1) * Scale
                        /\ row.before_range[3] * Scale <= st.offset
                        /\ st.offset < (row.before_range[3] + 1) * Scale

\* One label was added and the other removed, and the report is written.
C5_Witness ==
    /\ pc = "done"
    /\ counts["added"] = 1
    /\ counts["removed"] = 1
    /\ \E k \in 1..Len(all_rows) :
           /\ all_rows[k].result = "added"
           /\ results_maps[2][all_rows[k].label].mean % Scale # 0

(***************************************************************************)
(* Properties of MismatchRate                                              *)
(***************************************************************************)
\* The unordered pairs of positions whose intervals have no common point
\* other than a shared end point.
NonIntersectingPairs ==
    {pr \in SUBSET (1..Len(intervals)) :
        /\ Cardinality(pr) = 2
        /\ \E m \in pr, n \in pr :
               /\ m # n
               /\ (intervals[n][1] >= intervals[m][2]
                      \/ intervals[n][2] <= intervals[m][1])}

PairCount == Cardinality({pr \in SUBSET (1..Len(intervals)) :
                             Cardinality(pr) = 2})

\* C6: for k >= 2 intervals MismatchRate returns the number of unordered
\* pairs of non-intersecting intervals divided by k*(k-1)/2, a value in
\* [0, 1].
C6_MismatchRateIsFraction ==
    (pc # "call" /\ Len(intervals) >= 2) =>
        /\ pc = "done"
        /\ IsOk(mismatch_rate)
        /\ PairCount * 2 = Len(intervals) * (Len(intervals) - 1)
        /\ mismatch_rate.val * PairCount
               <= Cardinality(NonIntersectingPairs) * Scale
        /\ Cardinality(NonIntersectingPairs) * Scale
               < (mismatch_rate.val + 1) * PairCount
        /\ 0 <= mismatch_rate.val
        /\ mismatch_rate.val <= Scale

\* Three intervals of which some pairs intersect and some do not.
C6_Witness ==
    /\ pc = "done"
    /\ Len(intervals) = 3
    /\ Cardinality(NonIntersectingPairs) \in {1, 2}
    /\ 0 < mismatch_rate.val
    /\ mismatch_rate.val < Scale

\* C7: the rate of k >= 2 identical intervals is 0, zero-width intervals
\* included.
C7_IdenticalIntervalsRateZero ==
    (/\ pc # "call"
     /\ Len(intervals) >= 2
     /\ \A m \in 1..Len(intervals) : intervals[m] = intervals[1]) =>
        /\ IsOk(mismatch_rate)
        /\ mismatch_rate.val = 0

PairwiseDisjoint ==
    \A m \in 1..Len(intervals), n \in 1..Len(intervals) :
        m # n => (intervals[m][2] < intervals[n][1]
                     \/ intervals[n][2] < intervals[m][1])

\* C8: the rate of k >= 2 pairwise-disjoint intervals is 1.
C8_DisjointIntervalsRateOne ==
    (pc # "call" /\ Len(intervals) >= 2 /\ PairwiseDisjoint) =>
        /\ IsOk(mismatch_rate)
        /\ mismatch_rate.val = Scale

\* Three pairwise-disjoint intervals, one of them of positive width.
C8_Witness ==
    /\ pc = "done"
    /\ Len(intervals) = 3
    /\ PairwiseDisjoint
    /\ \E m \in 1..3 : intervals[m][1] < intervals[m][2]

(***************************************************************************)
(* Properties of ValidatePerfCompare                                       *)
(***************************************************************************)
\* The labels of by_test in the order the loop visits them.
ValidateOrder == SortedLabels(DOMAIN by_test)

SummaryWritten ==
    \E k \in 1..Len(out_fh) :
        out_fh[k][1] \in {"Mean mismatch rate:",
                          "Mean relative confidence interval width:",
                          "Number of test cases:",
                          "Number of result sets:",
                          "Expected number of test cases with mismatches:"}

\* No rate was ever returned or written for a label with fewer than two
\* intervals, and the summary is written only if no label is such.
C9_NoRateForFewGroups ==
    /\ \A k \in 1..Len(mismatch_rates) : Len(by_test[ValidateOrder[k]]) >= 2
    /\ \A k \in 1..Len(out_fh) :
           out_fh[k][1] = "%f %s" => Len(by_test[out_fh[k][3]]) >= 2
    /\ (pc = "done" \/ SummaryWritten) =>
           \A label \in DOMAIN by_test : Len(by_test[label]) >= 2

\* When the loop reaches a label with fewer than two intervals the handler
\* ends with the error of the division, and writes and records nothing.
C9_FewGroupsStep ==
    (/\ pc = "rates"
     /\ Len(mismatch_rates) < Cardinality(DOMAIN by_test)
     /\ Len(by_test[ValidateOrder[Len(mismatch_rates) + 1]]) < 2) =>
        /\ pc' = "error"
        /\ exc' = "ZeroDivisionError"
        /\ out_fh' = out_fh
        /\ mismatch_rates' = mismatch_rates

\* C9: a label produced by fewer than 2 groups makes the computation of
\* its mismatch rate end in an error that leaves ValidatePerfCompare; no
\* rate (0 or other) is returned for it and no summary line is written.
C9_FewGroupsRaise == []C9_NoRateForFewGroups /\ [][C9_FewGroupsStep]_vars

\* The rate of "t" is written, then "x", which only one group ran, ends
\* the handler with the error.
C9_Witness ==
    /\ pc = "error"
    /\ exc = "ZeroDivisionError"
    /\ Len(mismatch_rates) = 1
    /\ "x" \in DOMAIN by_test
    /\ Len(by_test["x"]) = 1
    /\ ~SummaryWritten

\* C10: for group_size g >= 1 there are floor(N/g) groups, group i is the
\* g boots at positions i*g .. (i+1)*g-1 in input order, and the last
\* N - g*floor(N/g) boots, fewer than g, are in no group and are reported
\* as leftover by a run that ends without error.
C10_ContiguousGroups ==
    LET n == Len(results_dirs)
    IN /\ (pc # "start" /\ group_size >= 1) =>
              /\ group_count * group_size <= n
              /\ n < (group_count + 1) * group_size
       /\ Len(group_args) <= group_count
       /\ \A i \in 1..Len(group_args) :
              group_args[i] =
                  [k \in 1..group_size |->
                      results_dirs[(i - 1) * group_size + k]]
       /\ pc \in {"rates", "done"} =>
              /\ Len(group_args) = group_count
              /\ Len(results_maps) = group_count
       /\ pc = "done" =>
              LET line == out_fh[Len(out_fh) - 1]
              IN /\ line[1] = "Number of result sets:"
                 /\ line[2] = group_count
                 /\ line[4] = group_size
                 /\ line[6] = n - group_size * group_count
                 /\ line[6] \in 0..(group_size - 1)

\* Five boots in groups of two: two groups, the fifth boot is left over
\* and the run ends without error.
C10_Witness ==
    /\ pc = "done"
    /\ Len(results_dirs) = 5
    /\ group_size = 2
    /\ group_args = <<<<1, 2>>, <<3, 4>>>>
    /\ out_fh[Len(out_fh) - 1][6] = 1

(***************************************************************************)
(* Properties of ResultsFromDirs                                           *)
(***************************************************************************)
\* The process-run records of a boot, in the order they are read.
RECURSIVE RecordsOf(_)
RecordsOf(runs) ==
    IF runs = <<>> THEN <<>> ELSE Head(runs) \o RecordsOf(Tail(runs))

RecordsWith(label, runs) ==
    LET HasLabel(test_case) == test_case.label = label
    IN SelectSeq(RecordsOf(runs), HasLabel)

\* The boot that the last iteration of the loop over the boots read.
LastBoot == fs[boot_paths[boot_idx]]

\* All the values but the first.
Rest(seq) == [i \in 1..(Len(seq) - 1) |-> seq[i + 1]]

\* m is the arithmetic mean of seq, to within one fixed-point step.
IsMeanOf(m, seq) ==
    /\ Len(seq) > 0
    /\ m * Len(seq) <= Sum(seq)
    /\ Sum(seq) < (m + 1) * Len(seq)

\* The boot with another running time for every initial run.
WithWarmUp(runs, warm_up) ==
    [j \in 1..Len(runs) |->
        [k \in 1..Len(runs[j]) |->
            [label |-> runs[j][k].label,
             values |-> IF runs[j][k].values = <<>> THEN <<>>
                        ELSE <<ToFloat(warm_up)>> \o Rest(runs[j][k].values)]]]

\* C11: for every process-run record with at least 2 values, what
\* ResultsFromDirs appends to the boot's list of its label is the arithmetic
\* mean of values[1:]: every value after the first counts with equal weight,
\* and the boot's lists are the same whatever the first values are.
C11_PerRunMeanSkipsFirst ==
    boot_idx > 0 =>
        /\ \A label \in DOMAIN boot_results :
               LET records == RecordsWith(label, LastBoot)
               IN /\ Len(boot_results[label]) = Len(records)
                  /\ \A k \in 1..Len(records) :
                         Len(records[k].values) >= 2 =>
                             IsMeanOf(boot_results[label][k],
                                      Rest(records[k].values))
        /\ \A warm_up \in WarmUps :
               ResultsForBoot(WithWarmUp(LastBoot, warm_up), <<>>)
                   = Ok(boot_results)

\* A boot was read in which "x" ran 10, 4 and 6 units: its mean is 5.
C11_Witness ==
    /\ boot_idx > 0
    /\ "x" \in DOMAIN boot_results
    /\ RecordsWith("x", LastBoot)[1].values
           = <<ToFloat(10), ToFloat(4), ToFloat(6)>>
    /\ boot_results["x"][1] = ToFloat(5)

\* ResultsFromDirs is called with boot_count boots that each have a single
\* process run with the values [10, 4, 6] for "x".
SingleRunBoots(boot_count) ==
    /\ Len(boot_paths) = boot_count
    /\ \A i \in 1..boot_count :
           fs[boot_paths[i]]
               = <<<<[label |-> "x",
                      values |-> <<ToFloat(10), ToFloat(4), ToFloat(6)>>]>>>>

\* C12 as stated: aggregating a single boot with a single process run with
\* the values [10, 4, 6] for "x" succeeds with mean 5 for "x".
C12_SingleBootSucceeds ==
    (SingleRunBoots(1) /\ pc # "boots") =>
        /\ pc = "done"
        /\ "x" \in DOMAIN results.val
        /\ results.val["x"].mean = ToFloat(5)

\* C12: a boot with a single process run with the values [10, 4, 6] for "x"
\* gives the per-run sample [4, 6], the per-run mean 5 and the per-boot
\* value 5; ResultsFromDirs of that single boot then fails, as the only
\* per-boot value of "x" is too small a sample for a Stats, and
\* ResultsFromDirs of two such boots succeeds with mean 5.
C12_SingleBootInsufficient ==
    /\ (SingleRunBoots(1) /\ boot_idx = 1) =>
           /\ DropFirst(fs[boot_paths[1]][1][1].values)
                  = <<ToFloat(4), ToFloat(6)>>
           /\ boot_results = [label \in {"x"} |-> <<ToFloat(5)>>]
           /\ label_lists = [label \in {"x"} |-> <<ToFloat(5)>>]
    /\ (SingleRunBoots(1) /\ pc # "boots") =>
           /\ boot_idx = 1
           /\ pc = "error"
           /\ exc = InsufficientSampleError
           /\ results = Raise(InsufficientSampleError)
    /\ (SingleRunBoots(2) /\ pc # "boots") =>
           /\ pc = "done"
           /\ results = Ok([label \in {"x"} |-> StatsOf(ToFloat(5), 0)])

\* ResultsFromDirs of the single boot has failed.
C12_Witness == SingleRunBoots(1) /\ pc = "error" /\ boot_idx = 1

\* The boots that have a process-run record with fewer than 2 values.
ShortBoots ==
    {i \in 1..Len(boot_paths) :
        \E k \in 1..Len(RecordsOf(fs[boot_paths[i]])) :
            Len(RecordsOf(fs[boot_paths[i]])[k].values) < 2}

\* C13: if a process-run record of a boot has fewer than 2 values,
\* ResultsFromDirs fails with the empty-sample error and returns no map: it
\* never gets past the first such boot, and nothing of that boot is in the
\* lists.
C13_ShortRecordRaises ==
    ShortBoots # {} =>
        LET first == CHOOSE i \in ShortBoots : \A j \in ShortBoots : i <= j
        IN /\ pc # "done"
           /\ boot_idx < first
           /\ \A label \in DOMAIN label_lists :
                  Len(label_lists[label]) < first
           /\ pc = "error" =>
                  /\ boot_idx = first - 1
                  /\ exc = EmptySampleError
                  /\ results = Raise(EmptySampleError)

\* ResultsFromDirs has failed in its second boot, whose "x" has one value.
C13_Witness ==
    /\ pc = "error"
    /\ boot_idx = 1
    /\ ShortBoots = {2}
    /\ \E k \in 1..Len(RecordsOf(fs[boot_paths[2]])) :
           Len(RecordsOf(fs[boot_paths[2]])[k].values) = 1

\* The mean of the values after the warm-up run of all the records.
RECURSIVE Pooled(_)
Pooled(records) ==
    IF records = <<>> THEN <<>>
    ELSE Rest(Head(records).values) \o Pooled(Tail(records))

\* C20: the per-boot value of a label is the arithmetic mean of its per-run
\* means, one term per process-run record with that label, whatever the
\* number of values of the records.
C20_PerBootMeanOfRunMeans ==
    boot_idx > 0 =>
        \A label \in DOMAIN boot_results :
            /\ label \in DOMAIN label_lists
            /\ Len(boot_results[label]) = Len(RecordsWith(label, LastBoot))
            /\ IsMeanOf(label_lists[label][Len(label_lists[label])],
                        boot_results[label])

\* "x" ran in two process runs with 2 and 1 values after the warm-up run:
\* the per-boot value is 4.5, and not the mean of the three values.
C20_Witness ==
    /\ boot_idx > 0
    /\ "x" \in DOMAIN boot_results
    /\ boot_results["x"] = <<ToFloat(5), ToFloat(4)>>
    /\ Len(RecordsWith("x", LastBoot)[1].values) = 3
    /\ Len(RecordsWith("x", LastBoot)[2].values) = 2
    /\ label_lists["x"][Len(label_lists["x"])] = (9 * Scale) \div 2
    /\ ~IsMeanOf(label_lists["x"][Len(label_lists["x"])],
                 Pooled(RecordsWith("x", LastBoot)))

(***************************************************************************)
(* Properties of Stats                                                     *)
(***************************************************************************)
\* C14 as stated: Stats of an empty sample fails with the error of Mean,
\* Stats of one value with the error of MeanAndStddev, and Stats of 2 or
\* more values succeeds.
C14_EmptySampleIsMeanError ==
    pc # "call" =>
        /\ Len(sample) = 0 => (pc = "error" /\ exc = EmptySampleError)
        /\ Len(sample) = 1 => (pc = "error" /\ exc = InsufficientSampleError)
        /\ Len(sample) >= 2 => (pc = "done" /\ IsOk(stats_obj))

\* C14: Stats of an empty sample and Stats of one value both fail with the
\* error of MeanAndStddev (sample size too small); Stats of 2 or more
\* values succeeds.
C14_SmallSampleIsStddevError ==
    pc # "call" =>
        /\ Len(sample) <= 1 =>
               /\ pc = "error"
               /\ exc = InsufficientSampleError
               /\ exc # EmptySampleError
               /\ stats_obj = Raise(InsufficientSampleError)
        /\ Len(sample) >= 2 => (pc = "done" /\ IsOk(stats_obj))

\* Stats of the empty sample has failed.
C14_Witness == pc = "error" /\ sample = <<>>

AllEqual(seq) == \A i, j \in 1..Len(seq) : seq[i] = seq[j]

C16_FactorRangeAlways ==
    /\ pc # "error"
    /\ \A r \in RowsInBoth :
           /\ r.b[1] # 0 /\ r.b[2] # 0 =>
                  r.row.factor_range
                      = <<(r.a[1] * Scale) \div r.b[2], "-",
                          (r.a[2] * Scale) \div r.b[1]>>
           /\ r.row.result \in {"slower", "faster", "no_sig_diff"}
    /\ pc = "done" =>
           \A label \in labels :
               \E k \in 1..Len(all_rows) : all_rows[k].label = label

\* The pairs of labels of the model that sorted() puts in this order.
LexicographicallyBefore == {<<"new_test", "t">>, <<"new_test", "x">>,
                            <<"t", "x">>}

HasDifference(row) == row.result # "no_sig_diff"

\* The tables that the report holds under a title: a table is written as
\* its title and its rows.
TablesOf(report, title) ==
    {report[k][2] : k \in {i \in 1..Len(report) :
                               Len(report[i]) = 2 /\ report[i][1] = title}}

\* C17: the rows of the table of all test cases are in strictly increasing
\* lexicographic order of label, one row per label of the two maps; the
\* table of the test cases with differences holds the rows whose verdict is
\* not 'no_sig_diff', in the same order, and is left out when there is none.
C17_TablesSortedAndFiltered ==
    /\ \A i, j \in 1..Len(all_rows) :
           i < j => <<all_rows[i].label, all_rows[j].label>>
                        \in LexicographicallyBefore
    /\ diff_rows = SelectSeq(all_rows, HasDifference)
    /\ pc = "done" =>
           /\ {all_rows[k].label : k \in 1..Len(all_rows)} = labels
           /\ Len(all_rows) = Cardinality(labels)
           /\ TablesOf(out_fh, "Results from all test cases:") = {all_rows}
           /\ TablesOf(out_fh, "Results from test cases with differences:")
                  = IF SelectSeq(all_rows, HasDifference) = <<>> THEN {}
                    ELSE {SelectSeq(all_rows, HasDifference)}

\* A report of two test cases of which the second has a difference.
C17_Witness ==
    /\ pc = "done"
    /\ Len(all_rows) = 2
    /\ all_rows[1].result = "no_sig_diff"
    /\ TablesOf(out_fh, "Results from test cases with differences:")
           = {<<all_rows[2]>>}

(***************************************************************************)
(* Properties of ComparePerf from the results directories on               *)
(***************************************************************************)
\* The per-boot values of "t" in the boots of a directory.
PerBootSample(by_boot) ==
    [i \in 1..Len(by_boot) |-> fs[by_boot[i]][1][1].values[2]]

\* The per-boot samples are [98, 100, 102] before and [108, 110, 112] after.
SamplesOfScenario ==
    /\ BootsPerDir = 3
    /\ PerBootSample(ByBootBefore)
           = <<ToFloat(98), ToFloat(100), ToFloat(102)>>
    /\ PerBootSample(ByBootAfter)
           = <<ToFloat(108), ToFloat(110), ToFloat(112)>>

\* C18 as stated: with the per-boot samples [98, 100, 102] before and
\* [108, 110, 112] after, the two confidence intervals of "t" do not overlap
\* and the verdict is 'slower'.
C18_ScenarioIsSlower ==
    (SamplesOfScenario /\ pc = "done") =>
        /\ results_maps[2]["t"].interval[1] >= results_maps[1]["t"].interval[2]
        /\ all_rows[1].result = "slower"

\* C18: with the per-boot samples [98, 100, 102] before and [108, 110, 112]
\* after, the means are 100 and 110 and both offsets are more than 10, so
\* the two confidence intervals of "t" overlap and the verdict is
\* 'no_sig_diff'; the factor range is [a0/b1, a1/b0].
C18_ScenarioIsNoSigDiff ==
    (SamplesOfScenario /\ pc \in {"loop", "done"}) =>
        LET before == results_maps[1]["t"]
            after == results_maps[2]["t"]
        IN /\ before.mean = ToFloat(100)
           /\ after.mean = ToFloat(110)
           /\ before.offset > ToFloat(10)
           /\ after.offset > ToFloat(10)
           /\ after.interval[1] < before.interval[2]
           /\ after.interval[2] > before.interval[1]
           /\ label_idx = 1 =>
                  /\ all_rows[1].label = "t"
                  /\ all_rows[1].result = "no_sig_diff"
                  /\ all_rows[1].factor_range
                         = <<(after.interval[1] * Scale)
                                 \div before.interval[2], "-",
                             (after.interval[2] * Scale)
                                 \div before.interval[1]>>
                  /\ diff_rows = <<>>
           /\ pc = "done" => label_idx = 1

\* The report of the scenario is written.
C18_Witness ==
    /\ SamplesOfScenario
    /\ pc = "done"
    /\ counts["no_sig_diff"] = 1

(***************************************************************************)
(* Properties of CompareSizes                                              *)
(***************************************************************************)
\* The number of bytes of the blobs of a snapshot, counted size by size.
RECURSIVE BytesUpTo(_, _)
BytesUpTo(blobs, size) ==
    IF size = 0 THEN 0
    ELSE size * Cardinality({k \in DOMAIN blobs : blobs[k].size = size})
         + BytesUpTo(blobs, size - 1)

\* C19: CompareSizes prints the total size of the first snapshot, the total
\* size of the second, their difference after - before, and the factor
\* after / before exactly when before is not 0; it never fails.  A total
\* is the sum of the sizes of the blobs of the snapshot, 0 without blobs.
C19_SizesReport ==
    /\ pc # "error"
    /\ pc = "done" =>
           LET before == BytesUpTo(snapshots[1].blobs, MaxBlobSize)
               after == BytesUpTo(snapshots[2].blobs, MaxBlobSize)
           IN /\ DOMAIN snapshots[1].blobs = {} => before = 0
              /\ stdout[1] = <<"Size before:  %d bytes", before>>
              /\ stdout[2] = <<"Size after:   %d bytes", after>>
              /\ stdout[3] = <<"Difference:   %d bytes", after - before>>
              /\ before = 0 => Len(stdout) = 3
              /\ before # 0 =>
                     /\ Len(stdout) = 4
                     /\ stdout[4] = <<"Factor of:    %f",
                                      (after * Scale) \div before>>

\* The second snapshot is smaller than the first: the difference is
\* negative and a factor is printed.
C19_Witness ==
    /\ pc = "done"
    /\ Len(stdout) = 4
    /\ stdout[3][2] < 0
    /\ Cardinality(DOMAIN snapshots[1].blobs) = 2

(***************************************************************************)
(* Properties of the samples of ResultsFromDirs                            *)
(***************************************************************************)
\* The labels of the process-run records of a boot.
LabelsOfBoot(i) ==
    {RecordsOf(fs[boot_paths[i]])[k].label :
        k \in 1..Len(RecordsOf(fs[boot_paths[i]]))}

\* The first boot_count boots in which the label occurs, in input order.
BootsWith(label, boot_count) ==
    LET Occurs(i) == label \in LabelsOfBoot(i)
    IN SelectSeq([i \in 1..boot_count |-> i], Occurs)

\* The labels seen in the first boot_count boots.
LabelsSeen(boot_count) == UNION {LabelsOfBoot(i) : i \in 1..boot_count}

\* The running time after the warm-up run of the label's record in a boot.
ValueInBoot(label, i) == RecordsWith(label, fs[boot_paths[i]])[1].values[2]

\* For every label seen so far, the sample has one entry per boot in which
\* the label occurs, in input order, and none for the other boots.
SamplesFollowBoots ==
    /\ DOMAIN label_lists = LabelsSeen(boot_idx)
    /\ \A label \in DOMAIN label_lists :
           label_lists[label]
               = [k \in 1..Len(BootsWith(label, boot_idx)) |->
                     ValueInBoot(label, BootsWith(label, boot_idx)[k])]

\* C21 as stated: the sample of a label has one entry per boot in which the
\* label occurs, in input order, and a label that occurs in only some of the
\* boots, be it a single one, is no error: ResultsFromDirs returns a map
\* whose keys are the labels seen in all boots.
C21_AnyLabelGetsStats ==
    /\ SamplesFollowBoots
    /\ pc # "boots" =>
           /\ pc = "done"
           /\ IsOk(results)
           /\ DOMAIN results.val = LabelsSeen(Len(boot_paths))

\* C21: the sample of a label has one entry per boot in which the label
\* occurs, in input order, and no entry for the other boots.  If every label
\* occurs in at least 2 boots, ResultsFromDirs returns a map whose keys are
\* the labels seen in all boots, each with the Stats of its sample, also for
\* a label that is missing from some boots; if a label occurs in exactly one
\* boot, ResultsFromDirs fails with the error of MeanAndStddev and returns
\* no map.
C21_LabelNeedsTwoBoots ==
    LET boot_count == Len(boot_paths)
        Single == {label \in LabelsSeen(boot_count) :
                      Len(BootsWith(label, boot_count)) = 1}
    IN /\ SamplesFollowBoots
       /\ (pc # "boots" /\ Single = {}) =>
              /\ pc = "done"
              /\ DOMAIN results.val = LabelsSeen(boot_count)
              /\ \A label \in DOMAIN results.val :
                     /\ Len(label_lists[label]) >= 2
                     /\ results.val[label] = Stats(label_lists[label]).val
       /\ (pc # "boots" /\ Single # {}) =>
              /\ pc = "error"
              /\ boot_idx = boot_count
              /\ exc = InsufficientSampleError
              /\ results = Raise(InsufficientSampleError)

\* "x" ran in the first and the third of three boots and "t" in all three:
\* the sample of "x" has the two values of these boots, in this order.
C21_Witness ==
    /\ pc = "done"
    /\ Len(boot_paths) = 3
    /\ BootsWith("x", 3) = <<1, 3>>
    /\ BootsWith("t", 3) = <<1, 2, 3>>
    /\ label_lists["x"] = <<ToFloat(2), ToFloat(4)>>
    /\ "x" \in DOMAIN results.val

(***************************************************************************)
(* Properties of ComparePerf and IntervalsIntersect together               *)
(***************************************************************************)
\* C22: when the before map and the after map are the same map, every label
\* gets the verdict 'no_sig_diff' and the counts of faster, slower, added
\* and removed stay 0, whatever intervals the Stats hold, zero-width
\* intervals included.
C22_SelfCompareNoSigDiff ==
    results_maps[1] = results_maps[2] =>
        /\ \A k \in 1..Len(all_rows) : all_rows[k].result = "no_sig_diff"
        /\ \A v \in {"faster", "slower", "added", "removed"} : counts[v] = 0


\* The intervals of all the Stats of the two maps.
IntervalsOfMaps ==
    UNION {{results_maps[m][label].interval :
               label \in DOMAIN results_maps[m]} : m \in {1, 2}}

\* C23: ComparePerf and MismatchRate use the same notion of significance:
\* the verdict of a label in both maps is 'no_sig_diff' exactly when
\* IntervalsIntersect(before, after) is true, also for intervals that touch
\* or have no width, and IntervalsIntersect does not depend on the order of
\* its two arguments.
C23_VerdictIffIntersect ==
    /\ \A r \in RowsInBoth :
           (r.row.result = "no_sig_diff") <=> IntervalsIntersect(r.b, r.a)
    /\ \A x \in IntervalsOfMaps, y \in IntervalsOfMaps :
           /\ x[1] <= x[2]
           /\ (Verdict(x, y) = "no_sig_diff") <=> IntervalsIntersect(x, y)
           /\ IntervalsIntersect(x, y) <=> IntervalsIntersect(y, x)

\* A report with a label whose intervals overlap and a label whose intervals
\* touch in one point: the first is 'no_sig_diff', the second is not.
C23_Witness ==
    /\ pc = "done"
    /\ \E r \in RowsInBoth :
           /\ r.row.result = "no_sig_diff"
           /\ r.a[1] < r.b[2] /\ r.b[1] < r.a[2]
    /\ \E r \in RowsInBoth :
           /\ r.row.result = "slower"
           /\ r.a[1] = r.b[2]
           /\ ~IntervalsIntersect(r.a, r.b)


(***************************************************************************)
(* Properties of the summary of ValidatePerfCompare                        *)
(***************************************************************************)
\* ValidatePerfCompare has returned or has been left by an exception.
ValidateEnded == pc \in {"done", "error"}

\* The guard of one of the steps of ValidatePerfCompare holds: a run that
\* has not ended goes on.
ValidateCanStep ==
    \/ pc = "start"
    \/ pc = "groups" /\ Len(group_args) <= group_count
    \/ pc = "rates" /\ Len(mismatch_rates) <= Cardinality(DOMAIN by_test)

\* Fewer boots than group_size, exactly one group, or groups of one boot.
TooFewForSummary ==
    \/ Len(results_dirs) < group_size
    \/ (group_size >= 1 /\ group_size <= Len(results_dirs)
                        /\ Len(results_dirs) < 2 * group_size)
    \/ group_size = 1

\* C24: the summary of ValidatePerfCompare is written only when at least 2
\* groups were formed, group_size is at least 2 and every label occurs in at
\* least 2 groups.  With fewer boots than group_size, with exactly one
\* group or with group_size 1 the run ends in an error without any summary
\* line: it does not report zero test cases or a rate of 0.
C24_SummaryNeedsTwoGroups ==
    /\ SummaryWritten =>
           /\ pc = "done"
           /\ group_count >= 2
           /\ Len(results_maps) >= 2
           /\ group_size >= 2
           /\ DOMAIN by_test # {}
           /\ \A label \in DOMAIN by_test : Len(by_test[label]) >= 2
    /\ pc = "done" =>
           /\ SummaryWritten
           /\ \E k \in 1..Len(out_fh) :
                  /\ out_fh[k][1] = "Number of test cases:"
                  /\ out_fh[k][2] = Cardinality(DOMAIN by_test)
                  /\ out_fh[k][2] >= 1
    /\ TooFewForSummary =>
           /\ pc # "done"
           /\ ~SummaryWritten
           /\ mismatch_rates = <<>>
           /\ ValidateEnded => (pc = "error" /\ exc # "")
    /\ ~ValidateEnded => ValidateCanStep

\* Three boots in groups of two: one group is formed, and the run ends with
\* the error of the rate of its first label, after the heading of the rates.
C24_Witness ==
    /\ pc = "error"
    /\ Len(results_dirs) = 3
    /\ group_size = 2
    /\ Len(results_maps) = 1
    /\ DOMAIN by_test # {}
    /\ Len(out_fh) = 1
    /\ exc = "ZeroDivisionError"

====
